---- MODULE Spec2Model ----
(***************************************************************************)
(* Model of src/contacts.js: the contact store kept as one JSON array in   *)
(* db/contacts.json, with the four asynchronous operations listContacts,   *)
(* getContactById, removeContact and addContact.                           *)
(*                                                                         *)
(* Every operation is an async function: it runs up to its next await,     *)
(* and the file system request it awaits completes later, at an instant    *)
(* other callers' requests may precede.  Each request is one step here.    *)
(* fs.promises.writeFile is two requests: the file is opened with flag     *)
(* "w" (created or truncated to length 0), then the data is written at     *)
(* offset 0; either request can fail.                                      *)
(***************************************************************************)
EXTENDS Integers, Sequences, FiniteSets, TLC

\* ------------------------------------------------------------------ bounds

\* ids nanoid() can still hand out: ids are 1..MaxId, drawn in order
MaxId == 2

Procs  == {"c1", "c2"}
Names  == {"Ann"}
Emails == {"a@x.io"}
Phones == {"555"}

\* an id nanoid() never produces (the empty string)
NoId == 0

\* ------------------------------------------------------------------ values

Null      == [kind |-> "null"]
Undefined == [kind |-> "undefined"]
\* the object an async function call evaluates to before it settles
Promise   == [kind |-> "promise"]
None      == [kind |-> "none"]

Contact(name, email, phone, id) ==
    [kind |-> "contact", name |-> name, email |-> email, phone |-> phone, id |-> id]

Array(recs) == [kind |-> "array", recs |-> recs]

\* File contents.  A JSON text is the array it denotes plus its layout
\* (pretty: written by hand with whitespace; JSON.stringify writes none).
\* size counts the records the bytes span: all records of the model
\* serialise to the same length.
JsonText(recs, pretty) == [kind |-> "json", recs |-> recs, pretty |-> pretty]
\* bytes JSON.parse rejects: the empty file (size 0) or a JSON text followed
\* by the tail of a longer one
Garbage(size) == [kind |-> "garbage", size |-> size]

Size(f) == IF f.kind = "json" THEN Len(f.recs) ELSE f.size

IsContact(v) == v.kind = "contact"

Ids(recs) == {recs[i].id : i \in 1..Len(recs)}

\* ------------------------------------------------------------ pure helpers

\* JSON.stringify(contacts): compact text of the array
JSONstringify(recs) == JsonText(recs, FALSE)

\* variant: the catch returns an empty list
listContactsEmptyOnError(f) ==
    IF f.kind = "json" THEN Array(f.recs) ELSE Array(<<>>)

\* fs.readFile + JSON.parse inside listContacts' try/catch: the array, or
\* null when the bytes do not parse
listContactsResult(f) ==
    IF f.kind = "json" THEN Array(f.recs) ELSE Null

\* Array.prototype.find(({id}) => id === contactId): the first match in
\* order, undefined when there is none
RECURSIVE find(_, _)
find(recs, contactId) ==
    IF recs = <<>> THEN Undefined
    ELSE IF Head(recs).id = contactId THEN Head(recs)
    ELSE find(Tail(recs), contactId)

\* variant: find(...) without "|| null"
getContactByIdNoFallback(contacts, contactId) ==
    IF contacts.kind # "array" THEN Null
    ELSE find(contacts.recs, contactId)

\* getContactById's result from what listContacts gave it: null.find throws
\* a TypeError, which the catch turns into null; find(...) || null
getContactByIdResult(contacts, contactId) ==
    IF contacts.kind # "array" THEN Null
    ELSE IF find(contacts.recs, contactId) = Undefined THEN Null
    ELSE find(contacts.recs, contactId)

\* variant: the filter's test negated (id === contactId)
filterKeepsMatch(recs, contactId) ==
    SelectSeq(recs, LAMBDA c : c.id = contactId)

\* contacts.filter(({id}) => id !== contactId)
filtredContacts(recs, contactId) ==
    SelectSeq(recs, LAMBDA c : c.id # contactId)

\* variant: contacts.unshift(newContact)
unshift(recs, newContact) == <<newContact>> \o recs

\* contacts.push(newContact)
push(recs, newContact) == Append(recs, newContact)

\* open(contactsPath, "w"): the file is truncated to length 0
OpenTruncate(f) == Garbage(0)

\* variant: the data is written at the end of the file (fs.appendFile)
WriteAppend(cur, data) ==
    IF Size(cur) = 0 THEN data ELSE Garbage(Size(cur) + Size(data))

\* write(fd, data) at offset 0 of the file as it is now: bytes another
\* writer put beyond the end of data stay
WriteData(cur, data) ==
    IF Size(cur) > Size(data) THEN Garbage(Size(cur)) ELSE data

\* ------------------------------------------------------------------- state

VARIABLES
    file,        \* bytes of db/contacts.json
    nextId,      \* the next id nanoid() returns
    pc,          \* per caller: where its operation stands
    op,          \* per caller: the exported function it called
    arg,         \* per caller: the arguments of the call
    contacts,    \* per caller: const contacts (what listContacts resolved to)
    newContact,  \* per caller: const newContact of addContact
    data,        \* per caller: the text handed to fs.writeFile
    lookup,      \* per caller: const contatForDelete of removeContact
    result,      \* per caller: what the returned promise resolved to
    pre,         \* history: the file when the call was made, kept while solo
    post,        \* history: the file when the call settled, if it ran solo
    solo,        \* history: no other call was in flight during this one
    fail,        \* history: the request at which the call's try block threw
    returned     \* history: the records addContact calls have returned

vars == <<file, nextId, pc, op, arg, contacts, newContact, data, lookup,
          result, pre, post, solo, fail, returned>>

locals == <<contacts, newContact, data, lookup>>

Active(q) == pc[q] \notin {"idle", "done"}

\* a record the file holds from the start, with the first id
Seed == Contact("Bob", "b@x.io", "777", 1)

\* variant: an id that is already taken is handed out again
takenId == Seed.id

\* nanoid(): an id never returned before
nanoid == nextId

\* variant: the lookup awaited (await getContactById(contactId))
contatForDeleteAwaited(f, contactId) ==
    getContactByIdResult(listContactsResult(f), contactId)

\* line 74: the value of getContactById(contactId), which is not awaited
contatForDelete(f, contactId) == Promise

Init ==
    /\ \E f \in {Garbage(0), JsonText(<<>>, TRUE), JsonText(<<Seed>>, TRUE)} :
          /\ file = f
          /\ nextId = IF f = JsonText(<<Seed>>, TRUE) THEN 2 ELSE 1
    /\ pc = [p \in Procs |-> "idle"]
    /\ op = [p \in Procs |-> "none"]
    /\ arg = [p \in Procs |-> None]
    /\ contacts = [p \in Procs |-> None]
    /\ newContact = [p \in Procs |-> None]
    /\ data = [p \in Procs |-> None]
    /\ lookup = [p \in Procs |-> None]
    /\ result = [p \in Procs |-> None]
    /\ pre = [p \in Procs |-> None]
    /\ post = [p \in Procs |-> None]
    /\ solo = [p \in Procs |-> TRUE]
    /\ fail = [p \in Procs |-> "none"]
    /\ returned = {}

\* a caller invokes an exported function: it runs to its first await.
\* Settled results are taken (Collect) before further calls are made.
Call(p, o, a, at) ==
    /\ pc[p] = "idle"
    /\ \A q \in Procs : pc[q] # "done"
    /\ pc' = [pc EXCEPT ![p] = at]
    /\ op' = [op EXCEPT ![p] = o]
    /\ arg' = [arg EXCEPT ![p] = a]
    /\ solo' = [q \in Procs |->
                  IF q = p THEN \A r \in Procs \ {p} : ~Active(r)
                  ELSE IF Active(q) THEN FALSE ELSE solo[q]]
    /\ pre' = [q \in Procs |->
                  IF q = p THEN (IF solo'[p] THEN file ELSE None)
                  ELSE IF Active(q) THEN None ELSE pre[q]]

\* the promise the call returned settles with value r
\* while the file holds f
Settle(p, r, stage, f) ==
    /\ pc' = [pc EXCEPT ![p] = "done"]
    /\ result' = [result EXCEPT ![p] = r]
    /\ post' = [post EXCEPT ![p] = IF solo[p] THEN f ELSE None]
    /\ fail' = [fail EXCEPT ![p] = stage]

\* ------------------------------------------------------------ listContacts

listContacts(p) ==
    /\ Call(p, "listContacts", None, "list_read")
    /\ UNCHANGED <<file, nextId, locals, result, post, fail, returned>>

\* lines 24-28: the read completes; the text is parsed, or the catch logs
ListRead(p) ==
    /\ pc[p] = "list_read"
    /\ LET r == listContactsResult(file) IN
          /\ contacts' = [contacts EXCEPT ![p] = r]
          /\ Settle(p, r, IF r = Null THEN "read" ELSE "none", file)
    /\ UNCHANGED <<file, nextId, op, arg, newContact, data, lookup, pre, solo,
                   returned>>

\* ---------------------------------------------------------- getContactById

getContactById(p, contactId) ==
    /\ Call(p, "getContactById", [contactId |-> contactId], "get_read")
    /\ UNCHANGED <<file, nextId, locals, result, post, fail, returned>>

\* lines 49-53: listContacts resolves, then find(...) || null
GetRead(p) ==
    /\ pc[p] = "get_read"
    /\ LET c == listContactsResult(file) IN
          /\ contacts' = [contacts EXCEPT ![p] = c]
          /\ Settle(p, getContactByIdResult(c, arg[p].contactId),
                    IF c = Null THEN "read" ELSE "none", file)
    /\ UNCHANGED <<file, nextId, op, arg, newContact, data, lookup, pre, solo,
                   returned>>

\* -------------------------------------------------------------- addContact

addContact(p, name, email, phone) ==
    /\ nextId + Cardinality({q \in Procs : pc[q] = "add_read"}) <= MaxId
    /\ Call(p, "addContact", [name |-> name, email |-> email, phone |-> phone],
            "add_read")
    /\ UNCHANGED <<file, nextId, locals, result, post, fail, returned>>

\* lines 109-113: listContacts resolves; the record is built with a fresh
\* id and pushed (a TypeError on null, caught at 116); writeFile is called
AddRead(p) ==
    /\ pc[p] = "add_read"
    /\ LET c == listContactsResult(file)
              n == Contact(arg[p].name, arg[p].email, arg[p].phone, nanoid)
          IN
          /\ contacts' = [contacts EXCEPT ![p] = c]
          /\ newContact' = [newContact EXCEPT ![p] = n]
          /\ nextId' = nextId + 1
          /\ IF c = Null
                THEN /\ Settle(p, Undefined, "read", file)
                     /\ UNCHANGED data
                ELSE /\ data' = [data EXCEPT ![p] = JSONstringify(push(c.recs, n))]
                     /\ pc' = [pc EXCEPT ![p] = "add_open"]
                     /\ UNCHANGED <<result, post, fail>>
    /\ UNCHANGED <<file, op, arg, lookup, pre, solo, returned>>

\* line 113, first request of writeFile: open with flag "w"
AddOpen(p) ==
    /\ pc[p] = "add_open"
    /\ \E ok \in BOOLEAN :
          IF ok
             THEN /\ file' = OpenTruncate(file)
                  /\ pc' = [pc EXCEPT ![p] = "add_write"]
                  /\ UNCHANGED <<result, post, fail>>
             ELSE /\ UNCHANGED file
                  /\ Settle(p, Undefined, "open", file)
    /\ UNCHANGED <<nextId, op, arg, locals, pre, solo, returned>>

\* line 113, second request of writeFile: the data is written; line 115.
\* A write that fails leaves the file as the open left it.
AddWrite(p) ==
    /\ pc[p] = "add_write"
    /\ \E ok \in BOOLEAN :
          IF ok
             THEN /\ file' = WriteData(file, data[p])
                  /\ Settle(p, newContact[p], "none", WriteData(file, data[p]))
                  /\ returned' = returned \cup {newContact[p]}
             ELSE /\ UNCHANGED <<file, returned>>
                  /\ Settle(p, Undefined, "write", file)
    /\ UNCHANGED <<nextId, op, arg, locals, pre, solo>>

\* ----------------------------------------------------------- removeContact

\* lines 74-80: the lookup is started and not awaited; its promise is
\* compared with null (77: return null); listContacts is called
removeContact(p, contactId) ==
    LET c == contatForDelete(file, contactId) IN
    /\ Call(p, "removeContact", [contactId |-> contactId],
            IF c = Null THEN "done" ELSE "rm_read")
    /\ lookup' = [lookup EXCEPT ![p] = c]
    /\ IF c = Null
          THEN /\ result' = [result EXCEPT ![p] = Null]
               /\ post' = [post EXCEPT ![p] = IF solo'[p] THEN file ELSE None]
          ELSE UNCHANGED <<result, post>>
    /\ UNCHANGED <<file, nextId, contacts, newContact, data, fail, returned>>

\* lines 49-53 run for line 74's call: its read completes at an instant of
\* its own, and the promise contatForDelete settles.  Nothing awaits it
\* before line 85, so no request of lines 80-83 is ordered after it: the
\* thread pool may serve it before or after the call's own open and write.
RemoveLookupRead(p) ==
    /\ Active(p)
    /\ lookup[p] = Promise
    /\ lookup' = [lookup EXCEPT ![p] =
          getContactByIdResult(listContactsResult(file), arg[p].contactId)]
    /\ UNCHANGED <<file, nextId, pc, op, arg, contacts, newContact, data,
                   result, pre, post, solo, fail, returned>>

\* lines 80-83: listContacts resolves; the list is filtered (a TypeError on
\* null, caught at 86); writeFile is called
RemoveRead(p) ==
    /\ pc[p] = "rm_read"
    /\ LET c == listContactsResult(file) IN
          /\ contacts' = [contacts EXCEPT ![p] = c]
          /\ IF c = Null
                THEN /\ Settle(p, Undefined, "read", file)
                     /\ UNCHANGED data
                ELSE /\ data' = [data EXCEPT ![p] = JSONstringify(
                                    filtredContacts(c.recs, arg[p].contactId))]
                     /\ pc' = [pc EXCEPT ![p] = "rm_open"]
                     /\ UNCHANGED <<result, post, fail>>
    /\ UNCHANGED <<file, nextId, op, arg, newContact, lookup, pre, solo,
                   returned>>

\* line 83, first request of writeFile: open with flag "w"
RemoveOpen(p) ==
    /\ pc[p] = "rm_open"
    /\ \E ok \in BOOLEAN :
          IF ok
             THEN /\ file' = OpenTruncate(file)
                  /\ pc' = [pc EXCEPT ![p] = "rm_write"]
                  /\ UNCHANGED <<result, post, fail>>
             ELSE /\ UNCHANGED file
                  /\ Settle(p, Undefined, "open", file)
    /\ UNCHANGED <<nextId, op, arg, locals, pre, solo, returned>>

\* line 83, second request of writeFile: the data is written
RemoveWrite(p) ==
    /\ pc[p] = "rm_write"
    /\ \E ok \in BOOLEAN :
          IF ok
             THEN /\ file' = WriteData(file, data[p])
                  /\ pc' = [pc EXCEPT ![p] = "rm_return"]
                  /\ UNCHANGED <<result, post, fail>>
             ELSE /\ UNCHANGED file
                  /\ Settle(p, Undefined, "write", file)
    /\ UNCHANGED <<nextId, op, arg, locals, pre, solo, returned>>

\* line 85: return contatForDelete; the promise removeContact returned
\* settles as contatForDelete does
RemoveReturn(p) ==
    /\ pc[p] = "rm_return"
    /\ lookup[p] # Promise
    /\ Settle(p, lookup[p], "none", file)
    /\ UNCHANGED <<file, nextId, op, arg, locals, pre, solo, returned>>

\* ------------------------------------------------------------------ caller

\* the caller takes the settled result; its next call starts afresh
Collect(p) ==
    /\ pc[p] = "done"
    /\ pc' = [pc EXCEPT ![p] = "idle"]
    /\ op' = [op EXCEPT ![p] = "none"]
    /\ arg' = [arg EXCEPT ![p] = None]
    /\ contacts' = [contacts EXCEPT ![p] = None]
    /\ newContact' = [newContact EXCEPT ![p] = None]
    /\ data' = [data EXCEPT ![p] = None]
    /\ lookup' = [lookup EXCEPT ![p] = None]
    /\ result' = [result EXCEPT ![p] = None]
    /\ pre' = [pre EXCEPT ![p] = None]
    /\ post' = [post EXCEPT ![p] = None]
    /\ solo' = [solo EXCEPT ![p] = TRUE]
    /\ fail' = [fail EXCEPT ![p] = "none"]
    /\ UNCHANGED <<file, nextId, returned>>

\* the ids a caller can name: those handed out so far, and one that is none
KnownIds == {NoId} \cup (1..(nextId - 1))

Next ==
    \E p \in Procs :
       \/ listContacts(p)
       \/ ListRead(p)
       \/ \E id \in KnownIds : getContactById(p, id)
       \/ GetRead(p)
       \/ \E n \in Names, e \in Emails, t \in Phones : addContact(p, n, e, t)
       \/ AddRead(p)
       \/ AddOpen(p)
       \/ AddWrite(p)
       \/ \E id \in KnownIds : removeContact(p, id)
       \/ RemoveLookupRead(p)
       \/ RemoveRead(p)
       \/ RemoveOpen(p)
       \/ RemoveWrite(p)
       \/ RemoveReturn(p)
       \/ Collect(p)

Spec == Init /\ [][Next]_vars

\* ----------------------------------------------------------- properties

Settled(p, o) == pc[p] = "done" /\ op[p] = o

\* p's call ran with no other call in flight and none of its requests failed
RanAlone(p, o) == Settled(p, o) /\ solo[p] /\ fail[p] = "none"

Distinct(recs) == \A i, j \in 1..Len(recs) : recs[i].id = recs[j].id => i = j

\* recs without the records whose id is id, order kept
Without(recs, id) ==
    LET keep == {i \in 1..Len(recs) : recs[i].id # id}
        F[k \in 0..Len(recs)] ==
            IF k = 0 THEN <<>>
            ELSE IF k \in keep THEN Append(F[k - 1], recs[k]) ELSE F[k - 1]
    IN F[Len(recs)]

\* the first record of recs with this id, null when there is none
FirstWith(recs, id) ==
    LET m == {i \in 1..Len(recs) : recs[i].id = id} IN
    IF m = {} THEN Null
    ELSE recs[CHOOSE i \in m : \A j \in m : i <= j]

\* C1: an addContact that completes on a readable collection C with no
\* other operation in flight leaves the file holding C with one record
\* appended at the end; that record carries the given name, email and
\* phone and a non-empty id, and is the value returned.
C1_AddAppendsOne ==
    \A p \in Procs :
       (RanAlone(p, "addContact") /\ pre[p].kind = "json") =>
          /\ post[p].kind = "json"
          /\ Len(post[p].recs) = Len(pre[p].recs) + 1
          /\ \A i \in 1..Len(pre[p].recs) : post[p].recs[i] = pre[p].recs[i]
          /\ LET n == post[p].recs[Len(post[p].recs)] IN
                /\ n.name = arg[p].name
                /\ n.email = arg[p].email
                /\ n.phone = arg[p].phone
                /\ n.id # NoId
                /\ result[p] = n

\* an add onto a collection that already holds a record has completed alone
C1_Witness ==
    \E p \in Procs :
       /\ RanAlone(p, "addContact")
       /\ pre[p].kind = "json" /\ Len(pre[p].recs) >= 1
       /\ IsContact(result[p])

\* C2: a removeContact(id) that completes with no other operation in
\* flight, for an id a prior addContact produced and that is stored,
\* leaves the prior collection minus the records with that id (one record
\* fewer, the others in their order) and returns the removed record.
C2_RemoveDropsExactlyThat ==
    \A p \in Procs :
       (/\ RanAlone(p, "removeContact")
        /\ pre[p].kind = "json"
        /\ \E r \in returned : r.id = arg[p].contactId
        /\ arg[p].contactId \in Ids(pre[p].recs)) =>
          /\ post[p].kind = "json"
          /\ post[p].recs = Without(pre[p].recs, arg[p].contactId)
          /\ Len(post[p].recs) = Len(pre[p].recs) - 1
          /\ result[p] \in returned
          /\ result[p] = FirstWith(pre[p].recs, arg[p].contactId)

\* an added record was removed alone from a collection of two
C2_Witness ==
    \E p \in Procs :
       /\ RanAlone(p, "removeContact")
       /\ pre[p].kind = "json" /\ Len(pre[p].recs) = 2
       /\ result[p] \in returned
       /\ post[p].kind = "json" /\ Len(post[p].recs) = 1

\* C3: getContactById(id) returns the first record, in stored order, of
\* the collection it read whose id is id, and null when there is none or
\* the file does not parse; run alone, an id a prior addContact returned
\* and that is stored gives the record that was added; the file is left
\* as it was.
C3_GetFirstMatchOrNull ==
    \A p \in Procs :
       Settled(p, "getContactById") =>
          /\ contacts[p].kind = "array" =>
                result[p] = FirstWith(contacts[p].recs, arg[p].contactId)
          /\ contacts[p].kind # "array" => result[p] = Null
          /\ solo[p] =>
                /\ post[p] = pre[p]
                /\ contacts[p] = (IF pre[p].kind = "json"
                                    THEN Array(pre[p].recs) ELSE Null)
                /\ \A r \in returned :
                      (/\ pre[p].kind = "json"
                       /\ r.id = arg[p].contactId
                       /\ r.id \in Ids(pre[p].recs)) => result[p] = r

\* alone, a lookup found an added record behind another one; another
\* lookup can then be seen returning null
C3_Witness ==
    \E p \in Procs :
       /\ Settled(p, "getContactById") /\ solo[p]
       /\ pre[p].kind = "json" /\ Len(pre[p].recs) = 2
       /\ result[p] \in returned
       /\ result[p] = pre[p].recs[2]

\* C4: a removeContact(id) that completes for an id matching no record of
\* the collection it read writes that collection back record for record;
\* with no other operation in flight the file afterwards holds the same
\* records in the same order as before.
C4_RemoveAbsentKeepsRecords ==
    \A p \in Procs :
       (Settled(p, "removeContact") /\ fail[p] = "none") =>
          /\ (/\ contacts[p].kind = "array"
              /\ arg[p].contactId \notin Ids(contacts[p].recs)) =>
                 /\ data[p].kind = "json"
                 /\ data[p].recs = contacts[p].recs
          /\ (/\ solo[p]
              /\ pre[p].kind = "json"
              /\ arg[p].contactId \notin Ids(pre[p].recs)) =>
                 /\ post[p].kind = "json"
                 /\ post[p].recs = pre[p].recs

\* a removal of an absent id ran alone on a non-empty hand-written file:
\* the file was rewritten (its layout changed) with the records kept
C4_Witness ==
    \E p \in Procs :
       /\ RanAlone(p, "removeContact")
       /\ pre[p].kind = "json" /\ Len(pre[p].recs) >= 1
       /\ arg[p].contactId \notin Ids(pre[p].recs)
       /\ pre[p].pretty /\ post[p].kind = "json" /\ ~post[p].pretty
       /\ post[p].recs = pre[p].recs

\* C5: removeContact(id) returns the removed contact when a record with
\* that id exists, and null when no record has that id or when a step
\* (read, parse, write) fails.  Stated for calls with no other operation
\* in flight.
C5_RemoveReturnsRecordOrNull ==
    \A p \in Procs :
       (Settled(p, "removeContact") /\ solo[p]) =>
          IF /\ fail[p] = "none"
             /\ pre[p].kind = "json"
             /\ arg[p].contactId \in Ids(pre[p].recs)
             THEN result[p] = FirstWith(pre[p].recs, arg[p].contactId)
             ELSE result[p] = Null

C7_LastWriterWins ==
    \A p, q \in Procs :
       (/\ p # q
        /\ Settled(p, "addContact") \/ Settled(p, "removeContact")
        /\ Settled(q, "addContact") \/ Settled(q, "removeContact")
        /\ fail[p] = "none" /\ fail[q] = "none"
        /\ contacts[p] = contacts[q]) =>
          /\ file.kind = "json" => file \in {data[p], data[q]}
          /\ (op[p] = "addContact" /\ op[q] = "addContact") =>
                /\ file.kind = "json"
                /\ IsContact(result[p]) /\ IsContact(result[q])
                /\ result[p].id \notin Ids(data[q].recs)
                /\ result[q].id \notin Ids(data[p].recs)

\* two overlapping adds both returned their record and the file lacks one
C7_Witness ==
    \E p, q \in Procs :
       /\ p # q
       /\ Settled(p, "addContact") /\ Settled(q, "addContact")
       /\ IsContact(result[p]) /\ IsContact(result[q])
       /\ file = data[q]
       /\ result[q].id \in Ids(file.recs)
       /\ result[p].id \notin Ids(file.recs)

\* C8: the ids of the stored collection are pairwise distinct in every
\* reachable state, under every interleaving of the four operations, as
\* are those of every collection a call read or handed to writeFile.
C8_IdsUnique ==
    /\ file.kind = "json" => Distinct(file.recs)
    /\ \A p \in Procs :
          /\ contacts[p].kind = "array" => Distinct(contacts[p].recs)
          /\ data[p].kind = "json" => Distinct(data[p].recs)

\* two records are stored after calls that overlapped
C8_Witness ==
    /\ file.kind = "json" /\ Len(file.recs) = 2
    /\ \E p \in Procs : pc[p] = "done" /\ ~solo[p]

\* C9: removeContact never returns at its existence check: a settled call
\* has always had listContacts resolve, and when that gave a collection
\* the call handed the filtered collection to writeFile, for an id that
\* matches no record too.
C9_RemoveNeverShortCircuits ==
    \A p \in Procs :
       Settled(p, "removeContact") =>
          /\ contacts[p] # None
          /\ contacts[p].kind = "array" =>
                /\ data[p] = JsonText(Without(contacts[p].recs,
                                              arg[p].contactId), FALSE)
                /\ fail[p] \in {"none", "open", "write"}

\* a removal of an id no record has wrote the file and returned null
C9_Witness ==
    \E p \in Procs :
       /\ Settled(p, "removeContact")
       /\ contacts[p].kind = "array"
       /\ arg[p].contactId \notin Ids(contacts[p].recs)
       /\ data[p].kind = "json"
       /\ fail[p] = "none"
       /\ result[p] = Null

\* C10: under every interleaving, a removeContact that returns a record
\* found a record with that id in the collection it filtered and wrote a
\* collection without it, and one that returns null wrote a collection
\* that drops no record of the one it filtered.
C10_ReturnAgreesWithRemoval ==
    \A p \in Procs :
       (Settled(p, "removeContact") /\ fail[p] = "none") =>
          /\ IsContact(result[p]) =>
                /\ arg[p].contactId \in Ids(contacts[p].recs)
                /\ arg[p].contactId \notin Ids(data[p].recs)
          /\ result[p] = Null =>
                Len(data[p].recs) = Len(contacts[p].recs)

====
